---- MODULE Spec2Model ----
(***************************************************************************)
(* The nearest-neighbour resize converters of                              *)
(* core/conversion/converters/impl/interpolate.cpp                         *)
(* (aten::upsample_nearest1d / 2d / 3d), run by a driver that lowers the   *)
(* nodes of a graph in program order against one shared ConversionCtx.     *)
(*                                                                         *)
(* One converter invocation is a short sequential program; pc is its       *)
(* position.  The backend (nvinfer1::INetworkDefinition) may answer any    *)
(* layer-creation call with a null handle.                                 *)
(***************************************************************************)
EXTENDS Integers, Sequences, FiniteSets, TLC

VARIABLES
    prog,              \* the graph: a sequence of operator nodes (immutable)
    idx,               \* the node the driver is at (1-based program order)
    passStatus,        \* "running" | "done" | "failed" | "crashed"
    passErr,           \* the error that failed the pass ("" if none)
    net,               \* ctx->net: the layers added so far, in order
    value_tensor_map,  \* ctx: node output -> backend tensor
    assoc_calls,       \* the outputs AssociateValueAndTensor was called for
    pc,                \* position inside the running converter
    in,                \* local: auto in
    in_shape,          \* local: auto in_shape
    out_size,          \* local: auto out_size
    out_shape,         \* local: auto out_shape
    resize_layer,      \* local: auto resize_layer (index into net, 0 = nullptr)
    nullHandle,        \* <<node, call>>: the layer-creation calls that returned nullptr
    nullDeref,         \* nodes whose converter dereferenced a null layer handle
    oobWrite           \* nodes whose std::copy wrote outside out_shape

vars == << prog, idx, passStatus, passErr, net, value_tensor_map, assoc_calls,
           pc, in, in_shape, out_size, out_shape, resize_layer,
           nullHandle, nullDeref, oobWrite >>

-----------------------------------------------------------------------------
(* Bounds of the model *)

MaxRank == 5
MaxLead == 2
MaxOutLen == 4
MaxNodes == 3

(* nvinfer1::Dims::MAX_DIMS *)
MAX_DIMS == 8

-----------------------------------------------------------------------------
(* Shape Utility Layer: util::toDims / util::toVec.  nvinfer1::Dims is a   *)
(* rank and a fixed array of MAX_DIMS entries; a vector is a sequence.     *)

toDims(v) ==
    [nbDims |-> Len(v),
     d |-> [i \in 1..MAX_DIMS |-> IF i <= Len(v) THEN v[i] ELSE 0]]

toVec(dims) == [i \in 1..dims.nbDims |-> dims.d[i]]

(* torch::jit::IValue of an optional operand: None, or an int list.        *)
NoneValue == [isNone |-> TRUE, ints |-> << >>]
IntList(l) == [isNone |-> FALSE, ints |-> l]
unwrapToIntList(v) == v.ints

(* Backend tensors.  layer = 0: a network input; layer = k > 0: output 0   *)
(* of net[k]; InvalidTensor: what a dereferenced null handle yields.       *)
InputTensor(shape) == [layer |-> 0, dims |-> toDims(shape)]
InvalidTensor == [layer |-> -1, dims |-> toDims(<< >>)]
NoTensor == [layer |-> -2, dims |-> toDims(<< >>)]
getDimensions(t) == t.dims
getOutput(k) == [layer |-> k, dims |-> net[k].dims]

Erase(s) == [i \in 1..(Len(s) - 1) |-> s[i + 1]]

RECURSIVE Prod(_)
Prod(s) == IF s = << >> THEN 1 ELSE s[1] * Prod(Erase(s))

-----------------------------------------------------------------------------
(* The graphs lowered *)

ShapeOf(n, lead) == [i \in 1..n |-> IF i = 1 THEN lead ELSE i + 1]
Shapes == { ShapeOf(n, l) : n \in 0..MaxRank, l \in 1..MaxLead }
OutList(k) == [i \in 1..k |-> 10 + i]
OutSizes == { NoneValue } \cup { IntList(OutList(k)) : k \in 0..MaxOutLen }

(* Number of float? scale operands of upsample_nearest{R}d *)
ScaleCount(R) == R

(* A node: its spatial rank R (which converter its schema dispatches to),  *)
(* operand 0 (from = 0: a network input of the given shape, from = j: the  *)
(* output of node j), operand 1 (output_size) and the scale operands       *)
(* (scaleIsNone[i] = TRUE: the optional-absent literal).                   *)
Node(R, from, shape, osz, sc) ==
    [R |-> R, from |-> from, shape |-> shape, output_size |-> osz,
     scaleIsNone |-> sc]

RichNodes ==
    UNION { { Node(R, 0, s, o, sc) :
                s \in Shapes, o \in OutSizes,
                sc \in [1..ScaleCount(R) -> BOOLEAN] } : R \in 1..3 }

PassShape == << 1, 3, 8, 8 >>
PassNodes(i) ==
    { Node(R, f, IF f = 0 THEN PassShape ELSE << >>,
           IntList(OutList(R)), [k \in 1..ScaleCount(R) |-> k # 1 \/ sc]) :
        R \in 1..2, f \in 0..(i - 1), sc \in BOOLEAN }

RECURSIVE PassProgs(_)
PassProgs(n) ==
    IF n = 0 THEN { << >> }
    ELSE { Append(p, nd) : p \in PassProgs(n - 1), nd \in PassNodes(n) }

Programs ==
    { << nd >> : nd \in RichNodes }
        \cup UNION { PassProgs(n) : n \in 2..MaxNodes }

-----------------------------------------------------------------------------
Init ==
    /\ prog \in Programs
    /\ idx = 1
    /\ passStatus = "running"
    /\ passErr = ""
    /\ net = << >>
    /\ value_tensor_map = [v \in {} |-> NoTensor]
    /\ assoc_calls = << >>
    /\ pc = "acquire"
    /\ in = NoTensor
    /\ in_shape = << >>
    /\ out_size = << >>
    /\ out_shape = << >>
    /\ resize_layer = 0
    /\ nullHandle = {}
    /\ nullDeref = {}
    /\ oobWrite = {}

(* const torch::jit::Node* n: the node being converted *)
node == prog[idx]

Running == passStatus = "running"

ctxVars == << net, value_tensor_map, assoc_calls >>
localVars == << in, in_shape, out_size, out_shape, resize_layer >>
faultVars == << nullHandle, nullDeref, oobWrite >>

-----------------------------------------------------------------------------
(* The driver's side of operand 0 (ConversionCtx lookup) *)

Resolved(nd) == nd.from = 0 \/ nd.from \in DOMAIN value_tensor_map

Lookup(nd) ==
    IF nd.from = 0 THEN InputTensor(nd.shape) ELSE value_tensor_map[nd.from]

(* A fatal error (TRTORCH_ASSERT / TRTORCH_CHECK / lookup) aborts the pass *)
Throw(err) ==
    /\ pc' = "threw"
    /\ passStatus' = "failed"
    /\ passErr' = err
    /\ UNCHANGED << prog, idx >>

(* The process dies (the outcome of undefined behaviour that traps) *)
Crash ==
    /\ pc' = "crashed"
    /\ passStatus' = "crashed"
    /\ UNCHANGED << prog, idx, passErr >>

Goto(l) ==
    /\ pc' = l
    /\ UNCHANGED << prog, idx, passStatus, passErr >>

-----------------------------------------------------------------------------
(* The converter, statement by statement *)

ShuffleLayer(i, input, dims) ==
    [kind |-> "shuffle", node |-> i, input |-> input, dims |-> dims,
     mode |-> ""]

kNEAREST == "kNEAREST"

ResizeLayer(i, input, dims) ==
    [kind |-> "resize", node |-> i, input |-> input, dims |-> dims,
     mode |-> kNEAREST]

NeedsReshape_From3(R, shape) == R = 1 /\ Len(shape) >= 3

(* if (in_shape.size() >= 4): present in the 1-D converter only *)
NeedsReshape(R, shape) == R = 1 /\ Len(shape) >= 4

UsesOutputSize_IgnoringScales(nd) == ~nd.output_size.isNone

(* Case 1: user uses output size and not scales *)
UsesOutputSize(nd) ==
    CASE nd.R = 1 -> ~nd.output_size.isNone /\ nd.scaleIsNone[1]
      [] nd.R = 2 -> ~nd.output_size.isNone /\ nd.scaleIsNone[1]
                        /\ nd.scaleIsNone[2]
      [] nd.R = 3 -> ~nd.output_size.isNone /\ nd.scaleIsNone[1]
                        /\ nd.scaleIsNone[2] /\ nd.scaleIsNone[3]

SizeMatches_AtMost(R, size) == Len(size) <= R

(* TRTORCH_ASSERT(out_size.size() == R, ...) *)
SizeMatches(R, size) == Len(size) = R

(* out_shape.begin() + (in_shape.size() - out_size.size()): the unsigned    *)
(* difference wraps and is converted to the iterator's signed difference   *)
(* type, which gives the mathematical difference.                          *)
CopyStart(shape, size) == Len(shape) - Len(size)

CopyInto_AtFront(shape, size) ==
    [i \in 1..Len(shape) |-> IF i <= Len(size) THEN size[i] ELSE shape[i]]

(* auto out_shape = in_shape; std::copy(out_size.begin(), out_size.end(),   *)
(* out_shape.begin() + start): the elements of out_shape after the copy    *)
(* (writes that fall outside the vector do not change its elements).       *)
CopyInto(shape, size) ==
    [i \in 1..Len(shape) |->
        IF i > CopyStart(shape, size) /\ i <= CopyStart(shape, size) + Len(size)
        THEN size[i - CopyStart(shape, size)]
        ELSE shape[i]]

(* auto in = args[0].ITensor(); auto in_shape = toVec(in->getDimensions()) *)
Acquire ==
    /\ Running /\ pc = "acquire"
    /\ Resolved(node)
    /\ in' = Lookup(node)
    /\ in_shape' = toVec(getDimensions(Lookup(node)))
    /\ Goto("reconcile")
    /\ UNCHANGED << ctxVars, out_size, out_shape, resize_layer, faultVars >>

(* operand 0 has no association: unresolved dependency, the pass aborts *)
LookupFails ==
    /\ Running /\ pc = "acquire"
    /\ ~Resolved(node)
    /\ Throw("unresolved_dependency")
    /\ UNCHANGED << ctxVars, localVars, faultVars >>

(* remove padding: erase the first dimension, addShuffle returned a layer *)
RemovePadding ==
    /\ Running /\ pc = "reconcile"
    /\ NeedsReshape(node.R, in_shape)
    /\ in_shape' = Erase(in_shape)
    /\ net' = Append(net, ShuffleLayer(idx, in, toDims(Erase(in_shape))))
    /\ in' = [layer |-> Len(net) + 1, dims |-> toDims(Erase(in_shape))]
    /\ Goto("detect")
    /\ UNCHANGED << value_tensor_map, assoc_calls, out_size, out_shape,
                    resize_layer, faultVars >>

(* addShuffle returned nullptr; shuffle->setReshapeDimensions(...) is       *)
(* called on it unchecked: undefined behaviour, the process dies or runs   *)
(* on with a handle that names no layer.                                   *)
ShuffleNull ==
    /\ Running /\ pc = "reconcile"
    /\ NeedsReshape(node.R, in_shape)
    /\ in_shape' = Erase(in_shape)
    /\ nullHandle' = nullHandle \cup {<< idx, "addShuffle" >>}
    /\ nullDeref' = nullDeref \cup {idx}
    /\ \/ Crash /\ in' = in
       \/ Goto("detect") /\ in' = InvalidTensor
    /\ UNCHANGED << ctxVars, out_size, out_shape, resize_layer, oobWrite >>

KeepShape ==
    /\ Running /\ pc = "reconcile"
    /\ ~NeedsReshape(node.R, in_shape)
    /\ Goto("detect")
    /\ UNCHANGED << ctxVars, localVars, faultVars >>

(* auto out_size = util::toVec(util::toDims(args[1].unwrapToIntList())) *)
UnwrapOutputSize ==
    /\ Running /\ pc = "detect"
    /\ UsesOutputSize(node)
    /\ out_size' = toVec(toDims(unwrapToIntList(node.output_size)))
    /\ Goto("validate")
    /\ UNCHANGED << ctxVars, in, in_shape, out_shape, resize_layer, faultVars >>

ScaleNotSupported_Throws ==
    /\ Running /\ pc = "detect"
    /\ ~UsesOutputSize(node)
    /\ Throw("unsupported_feature")
    /\ UNCHANGED << ctxVars, localVars, faultVars >>

(* else: LOG_DEBUG("scale factor parameter not supported yet.") *)
ScaleNotSupported ==
    /\ Running /\ pc = "detect"
    /\ ~UsesOutputSize(node)
    /\ Goto("return")
    /\ UNCHANGED << ctxVars, localVars, faultVars >>

SizeOk ==
    /\ Running /\ pc = "validate"
    /\ SizeMatches(node.R, out_size)
    /\ Goto("shape")
    /\ UNCHANGED << ctxVars, localVars, faultVars >>

SizeMismatch ==
    /\ Running /\ pc = "validate"
    /\ ~SizeMatches(node.R, out_size)
    /\ Throw("dimension_mismatch")
    /\ UNCHANGED << ctxVars, localVars, faultVars >>

CopyShape ==
    /\ Running /\ pc = "shape"
    /\ CopyStart(in_shape, out_size) >= 0
    /\ out_shape' = CopyInto(in_shape, out_size)
    /\ Goto("resize")
    /\ UNCHANGED << ctxVars, in, in_shape, out_size, resize_layer, faultVars >>

(* in_shape.size() < out_size.size(): the destination iterator lies before  *)
(* begin() and std::copy writes outside the vector: undefined behaviour,   *)
(* the process dies or runs on with the in-range writes done.              *)
CopyOutOfBounds ==
    /\ Running /\ pc = "shape"
    /\ CopyStart(in_shape, out_size) < 0
    /\ oobWrite' = oobWrite \cup {idx}
    /\ \/ Crash /\ out_shape' = in_shape
       \/ Goto("resize") /\ out_shape' = CopyInto(in_shape, out_size)
    /\ UNCHANGED << ctxVars, in, in_shape, out_size, resize_layer,
                    nullHandle, nullDeref >>

(* addResize returned a layer; setOutputDimensions, setResizeMode, setName *)
AddResize ==
    /\ Running /\ pc = "resize"
    /\ net' = Append(net, ResizeLayer(idx, in, toDims(out_shape)))
    /\ resize_layer' = Len(net) + 1
    /\ Goto("associate")
    /\ UNCHANGED << value_tensor_map, assoc_calls, in, in_shape, out_size,
                    out_shape, faultVars >>

(* addResize returned nullptr: TRTORCH_CHECK(resize_layer, ...) *)
ResizeNull ==
    /\ Running /\ pc = "resize"
    /\ nullHandle' = nullHandle \cup {<< idx, "addResize" >>}
    /\ Throw("no_resize_layer")
    /\ UNCHANGED << ctxVars, localVars, nullDeref, oobWrite >>

Associate_Input ==
    /\ Running /\ pc = "associate"
    /\ value_tensor_map' =
          [v \in DOMAIN value_tensor_map \cup {idx} |->
              IF v = idx THEN in ELSE value_tensor_map[v]]
    /\ assoc_calls' = Append(assoc_calls, idx)
    /\ Goto("return")
    /\ UNCHANGED << net, localVars, faultVars >>

(* ctx->AssociateValueAndTensor(n->outputs()[0], resize_layer->getOutput(0)) *)
Associate ==
    /\ Running /\ pc = "associate"
    /\ value_tensor_map' =
          [v \in DOMAIN value_tensor_map \cup {idx} |->
              IF v = idx THEN getOutput(resize_layer) ELSE value_tensor_map[v]]
    /\ assoc_calls' = Append(assoc_calls, idx)
    /\ Goto("return")
    /\ UNCHANGED << net, localVars, faultVars >>

(* return true; the driver goes on to the next node in program order *)
Return ==
    /\ Running /\ pc = "return"
    /\ IF idx < Len(prog)
       THEN /\ idx' = idx + 1
            /\ pc' = "acquire"
            /\ passStatus' = passStatus
            /\ in' = NoTensor
            /\ in_shape' = << >>
            /\ out_size' = << >>
            /\ out_shape' = << >>
            /\ resize_layer' = 0
       ELSE /\ idx' = idx
            /\ pc' = "end"
            /\ passStatus' = "done"
            /\ UNCHANGED localVars
    /\ UNCHANGED << prog, passErr, ctxVars, faultVars >>

Next ==
    \/ Acquire
    \/ LookupFails
    \/ RemovePadding
    \/ ShuffleNull
    \/ KeepShape
    \/ UnwrapOutputSize
    \/ ScaleNotSupported
    \/ SizeOk
    \/ SizeMismatch
    \/ CopyShape
    \/ CopyOutOfBounds
    \/ AddResize
    \/ ResizeNull
    \/ Associate
    \/ Return

Spec == Init /\ [][Next]_vars

-----------------------------------------------------------------------------
(* Vocabulary of the properties *)

Nodes == 1..Len(prog)

LayersOf(i, kind) == { k \in 1..Len(net) : net[k].node = i /\ net[k].kind = kind }

(* The converter of node i has been entered with operand 0 resolved *)
Entered(i) == (i < idx \/ (i = idx /\ pc # "acquire")) /\ Resolved(prog[i])

(* The converter of node i has returned true *)
Returned(i) == i < idx \/ (i = idx /\ pc \in {"return", "end"})

(* S: the shape of operand 0 of node i, as the backend reports it *)
InShapeOf(i) == toVec(getDimensions(Lookup(prog[i])))

SizeList(i) == prog[i].output_size.ints

AllScalesAbsent(i) == \A k \in 1..ScaleCount(prog[i].R) : prog[i].scaleIsNone[k]

(* s with its last Len(o) entries replaced by o *)
ReplaceLast(s, o) ==
    [j \in 1..Len(s) |->
        IF j <= Len(s) - Len(o) THEN s[j] ELSE o[j - (Len(s) - Len(o))]]

ExplicitSizeCase(i) ==
    /\ ~prog[i].output_size.isNone
    /\ AllScalesAbsent(i)
    /\ Len(SizeList(i)) = prog[i].R
    /\ Len(InShapeOf(i)) >= prog[i].R

(* C1 as claimed: for R in {1,2,3}, an input shape S with Len(S) >= R and   *)
(* an output_size of length R with every scale operand absent, the resize  *)
(* layer's declared output dimensions are S with its last R entries        *)
(* replaced by output_size (same length as S).                             *)
C1_AsClaimed ==
    \A i \in Nodes : \A k \in LayersOf(i, "resize") :
        (Entered(i) /\ ExplicitSizeCase(i) /\ i \notin nullDeref) =>
            net[k].dims = toDims(ReplaceLast(InShapeOf(i), SizeList(i)))

(* The shape the converter works on: S, without its first entry in the     *)
(* 1-D converter when Len(S) >= 4.                                         *)
Reconciled(i) ==
    IF prog[i].R = 1 /\ Len(InShapeOf(i)) >= 4
    THEN Tail(InShapeOf(i)) ELSE InShapeOf(i)

(* C1 amended: in the same case, every resize layer the converter creates  *)
(* has as declared output dimensions the reconciled input shape (S, or S   *)
(* without its first entry for the 1-D converter on Len(S) >= 4) with its  *)
(* last R entries replaced by output_size and the others unchanged; and an *)
(* invocation that returns has created such a layer.                       *)
C1_OutputDims ==
    \A i \in Nodes :
        (Entered(i) /\ ExplicitSizeCase(i)) =>
            /\ \A k \in LayersOf(i, "resize") :
                  net[k].dims = toDims(ReplaceLast(Reconciled(i), SizeList(i)))
            /\ Returned(i) => LayersOf(i, "resize") # {}

C1_Witness ==
    \E i \in Nodes :
        /\ Entered(i) /\ ExplicitSizeCase(i) /\ Returned(i)
        /\ prog[i].R = 1 /\ Len(InShapeOf(i)) >= 4
        /\ LayersOf(i, "resize") # {}

(* C2 as claimed: when output_size is absent or some scale operand is      *)
(* present, the converter adds no layer of any kind, records no            *)
(* association, raises no fatal error and returns success.                 *)
C2_SkipMutatesNothing ==
    \A i \in Nodes :
        (Entered(i) /\ ~(~prog[i].output_size.isNone /\ AllScalesAbsent(i))) =>
            /\ \A k \in 1..Len(net) : net[k].node # i
            /\ i \notin DOMAIN value_tensor_map
            /\ i = idx => pc \notin {"threw", "crashed"}

(* C3: when output_size is present, every scale operand is absent and the  *)
(* list does not hold exactly R integers, the converter never gets past    *)
(* the size check: it never returns success, creates no resize layer and   *)
(* records no association; at the check the dimension-mismatch error is    *)
(* the one step it can take, and an invocation that ended in an error      *)
(* ended in that one.                                                      *)
C3_SizeMismatchFatal ==
    \A i \in Nodes :
        (/\ Entered(i)
         /\ ~prog[i].output_size.isNone /\ AllScalesAbsent(i)
         /\ Len(SizeList(i)) # prog[i].R) =>
            /\ i = idx
            /\ pc \in {"reconcile", "detect", "validate", "threw", "crashed"}
            /\ passStatus # "done"
            /\ LayersOf(i, "resize") = {}
            /\ i \notin DOMAIN value_tensor_map
            /\ pc = "validate" => (ENABLED SizeMismatch /\ ~ENABLED SizeOk)
            /\ pc = "threw" => passErr = "dimension_mismatch"
            /\ pc = "crashed" => i \in nullDeref

C3_Witness ==
    /\ pc = "threw" /\ passErr = "dimension_mismatch"
    /\ ~node.output_size.isNone /\ AllScalesAbsent(idx)
    /\ Len(SizeList(idx)) > node.R

(* C4: in the 1-D converter, when the backend-observed input rank is >= 4  *)
(* and addShuffle returns a layer, exactly one reshape layer is inserted,  *)
(* on operand 0, with target shape the input shape without its first      *)
(* dimension; it is in the network before the output shape is computed;    *)
(* the resize layer takes the reshape's output as its input and its        *)
(* declared output rank is the input rank minus 1.  When the rank is <= 3  *)
(* no reshape layer is inserted and the resize layer takes operand 0.      *)
C4_LeadingDimReshape ==
    \A i \in Nodes :
        (Entered(i) /\ prog[i].R = 1) =>
            LET S == InShapeOf(i)
                sh == LayersOf(i, "shuffle")
                passed == i < idx \/ pc # "reconcile"
            IN  /\ ~passed => (sh = {} /\ LayersOf(i, "resize") = {}
                                 /\ out_shape = << >>)
                /\ (passed /\ Len(S) >= 4 /\ << i, "addShuffle" >> \notin nullHandle) =>
                      /\ Cardinality(sh) = 1
                      /\ \A k \in sh :
                            /\ net[k].input = Lookup(prog[i])
                            /\ net[k].dims = toDims(Tail(S))
                            /\ \A r \in LayersOf(i, "resize") :
                                  /\ k < r
                                  /\ net[r].input = getOutput(k)
                                  /\ net[r].dims.nbDims = Len(S) - 1
                /\ (passed /\ Len(S) <= 3) =>
                      /\ sh = {}
                      /\ \A r \in LayersOf(i, "resize") :
                            net[r].input = Lookup(prog[i])

C4_Witness ==
    \E i \in Nodes :
        /\ Entered(i) /\ prog[i].R = 1 /\ Len(InShapeOf(i)) >= 4
        /\ LayersOf(i, "shuffle") # {}
        /\ LayersOf(i, "resize") # {}
        /\ Returned(i)

CountCalls(i) == Cardinality({ c \in 1..Len(assoc_calls) : assoc_calls[c] = i })

(* C5: an invocation that completes the explicit-size path has created     *)
(* exactly one resize layer, of mode nearest, and has called associate     *)
(* exactly once, mapping the node's output to that layer's output 0; at    *)
(* any point of a pass a node's output has an association if and only if   *)
(* its invocation completed the explicit-size path.                        *)
C5_OneResizeOneAssociation ==
    \A i \in Nodes :
        LET completed == Returned(i) /\ UsesOutputSize(prog[i])
        IN  /\ completed =>
                /\ Cardinality(LayersOf(i, "resize")) = 1
                /\ \A k \in LayersOf(i, "resize") :
                      /\ net[k].mode = "kNEAREST"
                      /\ value_tensor_map[i] = [layer |-> k, dims |-> net[k].dims]
                /\ CountCalls(i) = 1
            /\ (i \in DOMAIN value_tensor_map) <=> completed
            /\ ~completed => CountCalls(i) = 0

C5_Witness ==
    /\ passStatus = "done" /\ Len(prog) >= 3
    /\ \E i \in Nodes : i \in DOMAIN value_tensor_map
    /\ \E i \in Nodes : i \notin DOMAIN value_tensor_map

(* C6 as claimed: whenever addShuffle or addResize returns a null handle   *)
(* the converter aborts with a fatal error before using the handle, does   *)
(* not return success and records no association.                          *)
C6_NullHandleFatal ==
    \A h \in nullHandle :
        /\ h[1] \notin nullDeref
        /\ h[1] = idx /\ pc = "threw" /\ passStatus = "failed"
        /\ h[1] \notin DOMAIN value_tensor_map

(* The node took the scale-factor skip path *)
Skipped(i) == Returned(i) /\ ~UsesOutputSize(prog[i])

(* C7: a node that takes the scale-factor skip path does not fail the      *)
(* pass (the converter returns and the driver can go on); the pass never   *)
(* gets beyond the first later node that consumes the skipped output: it   *)
(* fails there, at the lookup, with an unresolved-dependency error, before *)
(* any layer is built for it; no pass fails with an unsupported-feature    *)
(* error; and an unresolved-dependency error arises only at a consumer of  *)
(* a skipped output, so a pass without one does not fail that way.         *)
C7_SkipFailsAtConsumer ==
    /\ \A i \in Nodes :
          (i = idx /\ pc = "return" /\ Skipped(i)) =>
              (passStatus = "running" /\ passErr = "" /\ ENABLED Return)
    /\ \A j \in Nodes :
          (j <= idx /\ prog[j].from # 0 /\ Skipped(prog[j].from)) =>
              /\ j = idx
              /\ pc \in {"acquire", "threw"}
              /\ pc = "acquire" => (ENABLED LookupFails /\ ~ENABLED Acquire)
              /\ pc = "threw" => passErr = "unresolved_dependency"
              /\ \A k \in 1..Len(net) : net[k].node # j
    /\ passErr # "unsupported_feature"
    /\ passErr = "unresolved_dependency" =>
          (node.from # 0 /\ Skipped(node.from))
    /\ (passStatus = "failed" /\ passErr # "unresolved_dependency") =>
          (<< idx, "addResize" >> \in nullHandle \/ passErr = "dimension_mismatch")

C7_Witness ==
    /\ passStatus = "failed" /\ passErr = "unresolved_dependency"
    /\ idx = 3 /\ node.from = 1 /\ prog[2].from # 1
    /\ Skipped(1)

(* C8: when output_size is present with a length other than R and some     *)
(* scale operand is present, the converter takes the skip path: it never   *)
(* reaches the size check and never raises the dimension-mismatch error,   *)
(* creates no resize layer and records no association; at the detection    *)
(* the skip is the one step it can take, and it returns success.           *)
C8_DetectionBeforeValidation ==
    \A i \in Nodes :
        (/\ Entered(i)
         /\ ~prog[i].output_size.isNone /\ ~AllScalesAbsent(i)
         /\ Len(SizeList(i)) # prog[i].R) =>
            /\ pc \in {"reconcile", "detect", "return", "end", "crashed"}
            /\ passErr = ""
            /\ LayersOf(i, "resize") = {}
            /\ i \notin DOMAIN value_tensor_map
            /\ (i = idx /\ pc = "detect") =>
                  (ENABLED ScaleNotSupported /\ ~ENABLED UnwrapOutputSize)
            /\ (i = idx /\ pc = "return") => ENABLED Return
            /\ (i = idx /\ pc = "crashed") => i \in nullDeref

C8_Witness ==
    /\ pc = "end" /\ passStatus = "done"
    /\ ~node.output_size.isNone /\ ~AllScalesAbsent(idx)
    /\ Len(SizeList(idx)) # node.R

(* C9 as claimed: whenever the converter reaches the output-shape          *)
(* computation, for every input rank, the start index of the trailing      *)
(* overwrite is non-negative and no write falls outside the shape vector.  *)
C9_CopyInBounds ==
    /\ oobWrite = {}
    /\ pc = "shape" => CopyStart(in_shape, out_size) >= 0

(* C10 as claimed: the reshape inserted by the 1-D converter preserves the *)
(* element count, whatever the value of the leading dimension.             *)
C10_ReshapePreservesCount ==
    \A k \in 1..Len(net) :
        net[k].kind = "shuffle" =>
            Prod(toVec(net[k].dims)) = Prod(toVec(getDimensions(net[k].input)))
====
